---- MODULE Spec2Model ----
(***************************************************************************)
(* The TWAMP benchmark runner of vMark (frontend/src/components/           *)
(* TwampRunner.tsx) as a state machine: the React component's state and    *)
(* refs, the two event handlers (handleSubmit, handleStopClick), the       *)
(* polling-interval callback, stopAndCleanupProcesses, and the timers.     *)
(* Every await of the source is a point where another callback may run, so *)
(* each async function is cut into one action per await.                   *)
(***************************************************************************)
EXTENDS Integers, Sequences, FiniteSets, Bags, TLC

\* ----------------------------------------------------------------- bounds
\* handleSubmit invocations explored
MaxRuns == 2
\* per run: status requests that are outstanding or have ended the polling
MaxPolls == 2

Runs == 1..MaxRuns

\* a ref holding null (useRef(null)); timer handles are the run ids >= 1
null == 0

\* ------------------------------------------------------- the form's inputs
\* the `nodes` prop: the registry handed to the component
nodes == {"n1", "n2"}
\* node.ip of a registered node
nodeIp(n) == IF n = "n1" THEN "10.0.0.1" ELSE "10.0.0.2"
\* values the sender / responder selects can hold at submit ("" = nothing
\* selected, "n9" = an id that is not in `nodes` any more)
SenderChoices == {"", "n1"}
ResponderChoices == {"", "n2", "n9"}

NoParams ==
  [ipVersion |-> "", port |-> "", senderNodeId |-> "", responderNodeId |-> "",
   responderIp |-> ""]

\* ------------------------------------------------- texts and numeric input
\* A command text is modelled by its tokens, text.split(' '): the empty text
\* is <<"">>, and a text ending in a space has an empty last token. The
\* value of a numeric <input> is a text: "" or the decimal text of an integer.
RawInts == {-1, 0, 1, 5, 10, 64, 100, 256, 300, 5000, 10000, 10001, 70000}

\* Number.isNaN(parseInt(s, 10)) for such a text
isNaN(s) == ~ \E n \in RawInts : ToString(n) = s

\* parseInt(s, 10) where it is a number
parseInt(s) == CHOOSE n \in RawInts : ToString(n) = s

\* parseInt(s, 10) || d : NaN and 0 are falsy
orDefault(s, d) == IF isNaN(s) THEN d ELSE IF parseInt(s) = 0 THEN d ELSE parseInt(s)

Max(a, b) == IF a >= b THEN a ELSE b
Min(a, b) == IF a <= b THEN a ELSE b

\* const validCount = Math.max(1, Math.min(10000, parseInt(count, 10) || 100))
validCount(count) == Max(1, Min(10000, orDefault(count, 100)))

\* const validInterval = Math.max(10, Math.min(10000, parseInt(interval, 10) || 100))
validInterval(interval) == Max(10, Min(10000, orDefault(interval, 100)))

\* the wait computed with a buffer of 1000 ms, as its comment in the source says
effectiveWaitTimeMsShortBuffer(count, interval) ==
  validCount(count) * validInterval(interval) + 1000

\* const effectiveWaitTimeMs = validCount * validInterval + 2000
effectiveWaitTimeMs(count, interval) ==
  validCount(count) * validInterval(interval) + 2000

\* const numericPadding = parseInt(padding, 10) || 0
numericPadding(padding) == orDefault(padding, 0)

basePayloadSize == 4
udpHeaderSize == 8
ipv4HeaderSize == 20
ipv6HeaderSize == 40

\* the size computed with the IPv4 header for either version
otwSizeIpv4Only(ipVersion, padding) ==
  basePayloadSize + numericPadding(padding) + udpHeaderSize + ipv4HeaderSize

\* let otwSize = ...: one sum for 'ipv4', one for anything else (ipv6)
otwSize(ipVersion, padding) ==
  IF ipVersion = "ipv4"
  THEN basePayloadSize + numericPadding(padding) + udpHeaderSize + ipv4HeaderSize
  ELSE basePayloadSize + numericPadding(padding) + udpHeaderSize + ipv6HeaderSize

\* const otwSizeString = `${otwSize} bytes`
otwSizeString(ipVersion, padding) == ToString(otwSize(ipVersion, padding)) \o " bytes"

\* the form's fields as useState creates them (lines 147-154)
DefaultForm ==
  [ipVersion |-> "ipv4", port |-> "5000", count |-> "100", interval |-> "100",
   padding |-> "0", ttl |-> "64", tos |-> "0", doNotFragment |-> FALSE]

\* field values tried for the validators: count and interval vary, the rest
\* keeps its default
CountChoices == {"", "-1", "0", "1", "100", "10000", "10001"}
IntervalChoices == {"", "0", "5", "10", "100", "10000", "10001"}
NumericForms ==
  {[DefaultForm EXCEPT !.count = c, !.interval = i] :
     c \in CountChoices, i \in IntervalChoices}

\* field values tried for the command builder: count and interval keep their
\* default, the rest varies
CommandForms ==
  {[DefaultForm EXCEPT !.ipVersion = v, !.doNotFragment = d, !.port = p,
                       !.padding = pad, !.ttl = t, !.tos = q] :
     v \in {"ipv4", "ipv6"}, d \in BOOLEAN, p \in {"5000", "70000", ""},
     pad \in {"0", "-1"}, t \in {"64", "300"}, q \in {"0", "256", ""}}

\* field values tried for the on-the-wire size: the padding and the IP version
\* vary, the rest keeps its default
PaddingChoices == {"", "-1", "0", "1", "64", "10000"}
PaddingForms ==
  {[DefaultForm EXCEPT !.ipVersion = v, !.padding = pad] :
     v \in {"ipv4", "ipv6"}, pad \in PaddingChoices}

Forms == NumericForms \cup CommandForms \cup PaddingForms

\* ------------------------------------------------------ the command builder
\* parts.join(' ') on token lists
RECURSIVE join(_)
join(parts) == IF parts = <<>> THEN <<>> ELSE Head(parts) \o join(Tail(parts))

\* part => part : a part is kept unless it is the empty text
nonEmpty(part) == part # <<"">>

\* the responder command with the keyword of its port left out
responderCommandNoPortKeyword(f) ==
  join(SelectSeq(<< <<"twamp", f.ipVersion, "responder", f.port>> >>, nonEmpty))

\* responderCmdParts.filter(part => part).join(' ')
responderCommand(f) ==
  join(SelectSeq(<< <<"twamp", f.ipVersion, "responder", "port", f.port>> >>, nonEmpty))

\* (ipVersion === 'ipv4' && doNotFragment) ? 'do-not-fragment' : ''
dfPart(f) ==
  IF f.ipVersion = "ipv4" /\ f.doNotFragment THEN <<"do-not-fragment">> ELSE <<"">>

senderCmdParts(f, responderIp) ==
  << <<"twamp", f.ipVersion, "sender", "destination-ip", responderIp, "port", f.port>>,
     <<"count", ToString(validCount(f.count))>>,
     <<"interval", ToString(validInterval(f.interval))>>,
     <<"padding", f.padding>>,
     <<"ttl", f.ttl>>,
     <<"tos", f.tos>>,
     dfPart(f) >>

\* senderCmdParts.filter(part => part).join(' ')
senderCommand(f, responderIp) == join(SelectSeq(senderCmdParts(f, responderIp), nonEmpty))

\* `twamp ${params.ipVersion} stop responder port ${params.port}`
stopResponderCommand(params) ==
  <<"twamp", params.ipVersion, "stop", "responder", "port", params.port>>

\* `twamp ${params.ipVersion} stop sender destination-ip ${params.responderIp} port ${params.port}`
stopSenderCommand(params) ==
  <<"twamp", params.ipVersion, "stop", "sender", "destination-ip",
    params.responderIp, "port", params.port>>

\* the commands of an invocation that has not built them
NoCommands == [responderCommand |-> <<>>, senderCommand |-> <<>>]

\* ------------------------------------------------------ formatTwampResults
\* s.includes(sub)
includes(s, sub) ==
  \E i \in 1..(Len(s) - Len(sub) + 1) : SubSeq(s, i, i + Len(sub) - 1) = sub

\* What JSON.parse makes of a text that holds no object and no array: null, a
\* number, a string literal ("..." without quotes inside), or a SyntaxError
\* ("none").
jsonType(s) ==
  IF s = "null" THEN "null"
  ELSE IF ~isNaN(s) THEN "number"
  ELSE IF /\ Len(s) >= 2
          /\ SubSeq(s, 1, 1) = "\""
          /\ SubSeq(s, Len(s), Len(s)) = "\""
          /\ ~includes(SubSeq(s, 2, Len(s) - 1), "\"")
       THEN "string"
  ELSE "none"

\* !results for the parsed value of s: null, 0 and the empty string are falsy
falsy(s) == jsonType(s) = "null" \/ s = "0" \/ s = "\"\""

\* A value of a JSON payload is modelled by its JSON text; the value of a
\* field that is absent (undefined) by the empty text.
Undefined == ""

\* a number too large for a double, which JSON.parse reads as Infinity
Infinity == "1e999"

\* typeof val, with null, undefined and Infinity told apart
typeOf(val) ==
  IF val = Undefined THEN "undefined"
  ELSE IF val = Infinity THEN "infinity"
  ELSE jsonType(val)

\* the characters of a string value
content(val) == SubSeq(val, 2, Len(val) - 1)

\* the latency fields read by formatTwampResults, in the order of the table
LatencyFields ==
  <<"outbound_min_us", "outbound_max_us", "outbound_avg_us", "outbound_jitter_us",
    "inbound_min_us", "inbound_max_us", "inbound_avg_us", "inbound_jitter_us",
    "roundtrip_min_us", "roundtrip_max_us", "roundtrip_avg_us", "roundtrip_jitter_us">>

\* all the fields it reads
Fields ==
  {LatencyFields[i] : i \in 1..Len(LatencyFields)}
    \cup {"total_loss_percent", "packets_rx", "packets_tx", "error"}

\* a value none of whose fields is there
NoFields == [f \in Fields |-> Undefined]

\* The argument of formatTwampResults: whether it is falsy (null, undefined,
\* 0, ""), and what reading each field of it gives.
NoResults == [falsy |-> TRUE, field |-> NoFields]
Payload(field) == [falsy |-> FALSE, field |-> field]

\* val === null || val === undefined
nullish(val) == typeOf(val) \in {"null", "undefined"}

\* isFinite(val) for a value that is not nullish: the value is converted to a
\* number first, so a string that reads as a number is finite and any other
\* string is NaN
isFinite(val) ==
  \/ typeOf(val) = "number"
  \/ typeOf(val) = "string" /\ (content(val) = "" \/ ~isNaN(content(val)))

\* Number(val) of a finite value
toNumber(val) ==
  IF typeOf(val) = "number" THEN parseInt(val)
  ELSE IF content(val) = "" THEN 0 ELSE parseInt(content(val))

\* two decimal digits
digits2(k) == IF k < 10 THEN "0" \o ToString(k) ELSE ToString(k)

\* (us / 1000.0).toFixed(2) for a number of microseconds us >= 0 that does not
\* end in 5. (For one that does, the rounding depends on the double nearest
\* to us / 1000.)
toFixed2(us) ==
  LET hundredths == (us + 5) \div 10
  IN ToString(hundredths \div 100) \o "." \o digits2(hundredths % 100)

\* `${val}`: the text of a value inside a template
text(val) ==
  IF typeOf(val) = "number" THEN ToString(parseInt(val))
  ELSE IF typeOf(val) = "infinity" THEN "Infinity"
  ELSE IF typeOf(val) = "string" THEN content(val)
  ELSE typeOf(val)

\* const dp = (val, prec = 2) => ... (28-32)
dp(val) ==
  IF nullish(val) \/ ~isFinite(val) THEN "N/A"
  ELSE toFixed2(toNumber(val)) \o "ms"

\* results.total_loss_percent.toFixed(1) throws a TypeError: a string has no
\* toFixed method
lossThrows(field) == typeOf(field["total_loss_percent"]) = "string"

\* const loss = ... (34-36), for a payload on which it does not throw; a
\* finite loss is a whole number of percent
loss(field) ==
  LET val == field["total_loss_percent"]
  IN IF nullish(val) THEN "N/A"
     ELSE IF typeOf(val) = "infinity" THEN "Infinity%"
     ELSE ToString(parseInt(val)) \o ".0%"

\* const pkts = ... (38-40)
pkts(field) ==
  IF ~nullish(field["packets_rx"]) /\ ~nullish(field["packets_tx"])
  THEN text(field["packets_rx"]) \o "/" \o text(field["packets_tx"])
  ELSE "N/A"

\* const totalPkts = ... (41)
totalPkts(field) ==
  IF ~nullish(field["packets_tx"]) THEN " Total:" \o text(field["packets_tx"]) ELSE ""

\* results.error is truthy
truthy(val) ==
  \/ typeOf(val) = "infinity"
  \/ typeOf(val) = "number" /\ parseInt(val) # 0
  \/ typeOf(val) = "string" /\ content(val) # ""

\* ${results.error ? `Error: ${results.error}\n` : ''}
errorLine(field) ==
  IF truthy(field["error"]) THEN "Error: " \o text(field["error"]) \o "\n" ELSE ""

Dashes == "-----------------------------------------------------------------------"

\* the template of lines 45-54 around its cells: the twelve latency cells,
\* then loss, pkts, totalPkts and the error line
table(lat, lossCell, pktsCell, totalCell, errorCell) ==
  "\nSender output:\nDirection    Min      Max       Avg      Jitter    Loss     Pkts\n"
    \o Dashes \o "\n"
    \o "Outbound:    " \o lat[1] \o "   " \o lat[2] \o "   " \o lat[3] \o "   " \o lat[4]
    \o "     N/A     N/A\n"
    \o "Inbound:     " \o lat[5] \o "   " \o lat[6] \o "   " \o lat[7] \o "   " \o lat[8]
    \o "     N/A     " \o pktsCell \o "\n"
    \o "Roundtrip:   " \o lat[9] \o "   " \o lat[10] \o "   " \o lat[11] \o "   " \o lat[12]
    \o "     " \o lossCell \o "   " \o totalCell \o "\n"
    \o Dashes \o "\n"
    \o errorCell \o "\n"

\* formatTwampResults(results) throws
formatThrows(payload) == ~payload.falsy /\ lossThrows(payload.field)

\* formatTwampResults(payload) where it returns a text
formatTwampResults(payload) ==
  IF payload.falsy THEN "No results data."
  ELSE table([i \in 1..Len(LatencyFields) |-> dp(payload.field[LatencyFields[i]])],
             loss(payload.field), pkts(payload.field), totalPkts(payload.field),
             errorLine(payload.field))

\* ------------------------------------------- the results the Gateway reports
\* a payload with every field there: latencies in microseconds, no loss
FullFields ==
  [f \in Fields |->
     IF f = "total_loss_percent" THEN "0"
     ELSE IF f \in {"packets_rx", "packets_tx"} THEN "100"
     ELSE IF f = "error" THEN Undefined
     ELSE "5000"]

DefaultResults == Payload(FullFields)

\* values tried for a field: absent, null, finite, not finite, not a number
FieldValues == {Undefined, "null", "300", Infinity, "\"abc\""}

\* fields that are varied, one at a time
VariedFields ==
  {"outbound_min_us", "roundtrip_jitter_us", "total_loss_percent", "packets_rx",
   "packets_tx", "error"}

\* result payloads tried: the full one with one field changed, one with no
\* field at all, and no results
Payloads ==
  {Payload([FullFields EXCEPT ![f] = v]) : f \in VariedFields, v \in FieldValues}
    \cup {DefaultResults, Payload(NoFields), NoResults}

\* ------------------------------------------------------------ the UI texts
\* The error text is modelled by whether it is non-empty, which is all the
\* code (prev ? ... : ...) and the JSX ({error && ...}) ever read of it:
\* setError('') makes it FALSE, every setError that appends makes it TRUE.
\* The status text is modelled by its first line, the phase last written with
\* setStatusMessage(<literal>); the lines appended to it are not kept.
StStartingResponder == "Starting responder..."
StStartingSender == "Responder start command sent. Starting sender..."
StRunningSender == "Running sender test..."
StPolling == "Sender test running. Polling for results..."
StCompleted == "Test completed successfully."
StPollUnknown == "Failed to get final test status."
StPollError == "Error checking test status."
StStopping == "Attempting to stop test processes on nodes..."

VARIABLES
  form,                 \* useState: ipVersion, port, count, interval, padding, ttl, tos, doNotFragment
  maxWaitTime,          \* useState: the effectiveWaitTimeMs of the last run
  commands,             \* per handleSubmit invocation: the commands it built
  otwLine,              \* the value of the 'OTW Size:' line of the last summary written to the output
  senderStartResponse,  \* per invocation: the response of its sender-start fetch, until handled
  results,              \* statusData.results: what the Gateway reports with 'completed'
  senderResults,        \* useState: the results of the last 'completed' response
  formattedResults,     \* useState output: the report appended to it, "" if none
  isLoading,            \* useState: gates the Run and Stop buttons
  error,                \* useState: the error text is non-empty
  statusMessage,        \* useState: the first line of the status text
  testOutcomeRef,       \* useRef<TestOutcome>('running')
  pollingIntervalRef,   \* useRef: handle of the polling interval, or null
  progressIntervalRef,  \* useRef: handle of the progress interval, or null
  lastRunParamsRef,     \* useRef: parameters kept for the stop commands
  pollTimers,           \* setInterval table: polling intervals still scheduled
  progressTimers,       \* setInterval table: progress intervals still scheduled
  pc,                   \* per handleSubmit invocation: where it is suspended
  tasks,                \* bag of running poll callbacks / handleStopClick calls
  polled,               \* per run: status requests that ended the polling
  trailers,             \* per run and kind of cleanup: completion trailers written to the status text
  calls,                \* per run: commands issued to the Gateway, by kind
  cancelledIn,          \* per run: "", or whether handleStopClick stopped it in Running
  currentRun,           \* the latest invocation that entered the try block
  nextRun,              \* the next handleSubmit invocation
  runState              \* the RunState the component shows

formVars == <<form, maxWaitTime, commands, otwLine>>
reportVars == <<results, senderResults, formattedResults>>

vars ==
  <<form, maxWaitTime, commands, otwLine, senderStartResponse, results, senderResults,
    formattedResults, isLoading, error, statusMessage, testOutcomeRef, pollingIntervalRef,
    progressIntervalRef, lastRunParamsRef, pollTimers, progressTimers, pc,
    tasks, polled, trailers, calls, cancelledIn, currentRun, nextRun, runState>>

Kinds == {"responderStart", "senderStart", "responderStop", "senderStop"}
Active == {"StartingResponder", "StartingSender", "Running"}
Terminal == {"Completed", "Stopped", "Errored"}

\* the component as React mounts it, whatever the form holds
Mounted ==
  /\ maxWaitTime = 0
  /\ otwLine = ""
  /\ commands = [r \in Runs |-> NoCommands]
  /\ senderStartResponse = [r \in Runs |-> [status |-> "none", output |-> ""]]
  /\ senderResults = NoResults
  /\ formattedResults = ""
  /\ isLoading = FALSE
  /\ error = FALSE
  /\ statusMessage = ""
  /\ testOutcomeRef = "running"
  /\ pollingIntervalRef = null
  /\ progressIntervalRef = null
  /\ lastRunParamsRef = NoParams
  /\ pollTimers = {}
  /\ progressTimers = {}
  /\ pc = [r \in Runs |-> "notStarted"]
  /\ tasks = EmptyBag
  /\ polled = [r \in Runs |-> 0]
  /\ trailers = [r \in Runs |-> [k \in {"poll", "stop"} |-> 0]]
  /\ calls = [r \in Runs |-> [k \in Kinds |-> 0]]
  /\ cancelledIn = [r \in Runs |-> ""]
  /\ currentRun = null
  /\ nextRun = 1
  /\ runState = "Idle"

Init == form = DefaultForm /\ results = DefaultResults /\ Mounted

\* the component at the moment Run is pressed on a form the user has filled in
FormInit == form \in Forms /\ results = DefaultResults /\ Mounted

\* the component before a run whose status request will report these results
ReportInit == form = DefaultForm /\ results \in Payloads /\ Mounted

\* the commands sent when the sender-start goes out together with the
\* responder-start instead of after it
IssueStartsTogether(r, k) ==
  IF k = "responderStart"
  THEN [calls EXCEPT ![r]["responderStart"] = @ + 1, ![r]["senderStart"] = @ + 1]
  ELSE [calls EXCEPT ![r][k] = @ + 1]

\* one more command of kind k sent to the Gateway by run r
Issue(r, k) == [calls EXCEPT ![r][k] = @ + 1]

\* clearPollingInterval: the interval table after clearing the handle `ref`
clearPollingInterval(timers, ref) == IF ref # null THEN timers \ {ref} ELSE timers

\* clearInterval(progressIntervalRef.current) under `if (ref.current)`
clearProgress(timers, ref) == IF ref # null THEN timers \ {ref} ELSE timers

\* ------------------------------------------------------------ handleSubmit
\* the validation of lines 346-349
idsMissing(senderNodeId, responderNodeId) == senderNodeId = "" \/ responderNodeId = ""

\* nodes.find(node => node.id === responderNodeId) found a node
responderFound(responderNodeId) == responderNodeId \in nodes

\* the Run button: <button type="submit" disabled={isLoading}>
RunEnabled == ~isLoading

\* handleSubmit from its entry to its first await (the responder-start fetch)
handleSubmit(r, senderNodeId, responderNodeId) ==
  /\ RunEnabled
  /\ r = nextRun
  /\ nextRun' = nextRun + 1
  /\ IF idsMissing(senderNodeId, responderNodeId)
     THEN /\ error' = TRUE
          /\ statusMessage' = ""
          /\ pc' = [pc EXCEPT ![r] = "done"]
          /\ UNCHANGED <<isLoading, progressIntervalRef, progressTimers,
                         lastRunParamsRef, calls, currentRun, runState,
                         maxWaitTime, commands, otwLine, formattedResults>>
     ELSE /\ maxWaitTime' = effectiveWaitTimeMs(form.count, form.interval)
          /\ otwLine' = otwSizeString(form.ipVersion, form.padding)
          /\ formattedResults' = ""
          /\ progressIntervalRef' = r
          /\ progressTimers' = progressTimers \cup {r}
          /\ IF ~responderFound(responderNodeId)
             THEN /\ error' = TRUE
                  /\ statusMessage' = ""
                  /\ isLoading' = FALSE
                  /\ pc' = [pc EXCEPT ![r] = "done"]
                  /\ UNCHANGED <<lastRunParamsRef, calls, currentRun, runState,
                                 commands>>
             ELSE /\ error' = FALSE
                  /\ isLoading' = TRUE
                  /\ lastRunParamsRef' =
                       [ipVersion |-> form.ipVersion, port |-> form.port,
                        senderNodeId |-> senderNodeId,
                        responderNodeId |-> responderNodeId,
                        responderIp |-> nodeIp(responderNodeId)]
                  /\ commands' =
                       [commands EXCEPT ![r] =
                          [responderCommand |-> responderCommand(form),
                           senderCommand |->
                             senderCommand(form, nodeIp(responderNodeId))]]
                  /\ statusMessage' = StStartingResponder
                  /\ calls' = Issue(r, "responderStart")
                  /\ pc' = [pc EXCEPT ![r] = "responderStart"]
                  /\ currentRun' = r
                  /\ runState' = "StartingResponder"
  /\ UNCHANGED <<form, results, senderResults, senderStartResponse, trailers, testOutcomeRef,
                 pollingIntervalRef, pollTimers, tasks, polled, cancelledIn>>

\* isUserStop with its test of the error name lost: every caught error counts
\* as a user stop, so the catch block leaves isLoading alone
isUserStopAnyError(errName) == TRUE

\* const isUserStop = err.name === 'AbortError' && testOutcomeRef.current === 'stopped'
\* (errName is the name of the caught error)
isUserStop(errName) == errName = "AbortError" /\ testOutcomeRef = "stopped"

\* the catch block of handleSubmit (lines 605-627) of invocation r for an
\* error named errName; its branches on the kind of error are empty in the
\* source, and so is the finally block
catchBlock(r, errName) ==
  /\ pollTimers' = clearPollingInterval(pollTimers, pollingIntervalRef)
  /\ pollingIntervalRef' = null
  /\ isLoading' = IF isUserStop(errName) THEN isLoading ELSE FALSE
  /\ pc' = [pc EXCEPT ![r] = "done"]
  /\ runState' = IF runState \in Active /\ ~isLoading' THEN "Errored" ELSE runState

\* outcomes of executeTest: the fetch resolves with an OK response, or it
\* throws (network error, non-OK response). Its signal is that of a fresh
\* AbortController, which nothing aborts, so it never throws an AbortError.
StartOutcomes == {"ok", "throws"}

\* the responder-start call settles (line 473)
responderStartReturns(r) ==
  /\ pc[r] = "responderStart"
  /\ \E res \in StartOutcomes :
       IF res = "ok"
       THEN /\ statusMessage' = StStartingSender
            /\ pc' = [pc EXCEPT ![r] = "sleep"]
            /\ runState' = "StartingSender"
            /\ UNCHANGED <<isLoading, pollingIntervalRef, pollTimers>>
       ELSE /\ catchBlock(r, "Error")
            /\ UNCHANGED statusMessage
  /\ UNCHANGED <<error, testOutcomeRef, progressIntervalRef, lastRunParamsRef,
                 progressTimers, tasks, polled, calls, cancelledIn, currentRun,
                 nextRun>>
  /\ UNCHANGED formVars
  /\ UNCHANGED reportVars
  /\ UNCHANGED senderStartResponse
  /\ UNCHANGED trailers

\* new AbortController().signal.aborted: the signal of a controller made on
\* the spot, which nothing can have aborted
freshSignalAborted == FALSE

\* sleep(500) is over: the abort check, then the sender-start call (478-484)
sleepDone(r) ==
  /\ pc[r] = "sleep"
  /\ IF freshSignalAborted
     THEN /\ catchBlock(r, "Error")
          /\ UNCHANGED <<statusMessage, calls>>
     ELSE /\ statusMessage' = StRunningSender
          /\ calls' = Issue(r, "senderStart")
          /\ pc' = [pc EXCEPT ![r] = "senderStart"]
          /\ UNCHANGED <<isLoading, pollingIntervalRef, pollTimers, runState>>
  /\ UNCHANGED <<error, testOutcomeRef, progressIntervalRef, lastRunParamsRef,
                 progressTimers, tasks, polled, cancelledIn, currentRun, nextRun>>
  /\ UNCHANGED formVars
  /\ UNCHANGED reportVars
  /\ UNCHANGED senderStartResponse
  /\ UNCHANGED trailers

\* ------------------------------------------------- executeTest's output
\* Texts are strings; s.toLowerCase() and s.includes(sub) work on characters.
UpperCase == "ABCDEFGHIJKLMNOPQRSTUVWXYZ"
LowerCase == "abcdefghijklmnopqrstuvwxyz"

lowerChar(c) ==
  IF \E i \in 1..Len(UpperCase) : SubSeq(UpperCase, i, i) = c
  THEN LET i == CHOOSE k \in 1..Len(UpperCase) : SubSeq(UpperCase, k, k) = c
       IN SubSeq(LowerCase, i, i)
  ELSE c

RECURSIVE toLowerCase(_)
toLowerCase(s) ==
  IF Len(s) = 0 THEN ""
  ELSE IF Len(s) = 1 THEN lowerChar(s)
  ELSE LET half == Len(s) \div 2
       IN toLowerCase(SubSeq(s, 1, half)) \o toLowerCase(SubSeq(s, half + 1, Len(s)))

\* JSON.parse(s) for a text s that holds a scalar: a number or a string has
\* none of the fields
JSONparse(s) == [falsy |-> falsy(s), field |-> NoFields]

\* what executeTest returns for the Gateway's result.output (229-237): the
\* formatted table if the output parses as JSON, else the output itself
executeTestOutput(output) ==
  IF jsonType(output) = "none" THEN output ELSE formatTwampResults(JSONparse(output))

\* Gateway outputs tried for the sender-start call
SenderOutputs ==
  {"Sender started successfully",
   "TWAMP SENDER STARTED SUCCESSFULLY on port 5000",
   "Started successfully, 0 errors",
   "Error: responder unreachable",
   "command accepted",
   "\"Sender started successfully\""}

\* !(typeof senderStartOutput !== 'string' ||
\*   senderStartOutput.toLowerCase().includes('error') ||
\*   !senderStartOutput.toLowerCase().includes('started successfully'))
\* for the text executeTest returned
senderStarted(senderStartOutput) ==
  /\ ~includes(toLowerCase(senderStartOutput), "error")
  /\ includes(toLowerCase(senderStartOutput), "started successfully")

\* the Gateway outputs that pass the check of line 489 once executeTest has
\* returned them
StartedOutputs == {out \in SenderOutputs : senderStarted(executeTestOutput(out))}

\* no response of the sender-start fetch is waiting to be handled
NoResponse == [status |-> "none", output |-> ""]

\* the sender-start fetch settles: the Gateway's response (or the failure of
\* the fetch) is there, handleSubmit has not resumed yet
senderStartResponds(r) ==
  /\ pc[r] = "senderStart"
  /\ senderStartResponse[r] = NoResponse
  /\ \E res \in StartOutcomes :
       IF res = "ok"
       THEN \E out \in SenderOutputs :
              senderStartResponse' =
                [senderStartResponse EXCEPT ![r] = [status |-> "ok", output |-> out]]
       ELSE senderStartResponse' =
              [senderStartResponse EXCEPT ![r] = [status |-> "failed", output |-> ""]]
  /\ UNCHANGED <<formVars, reportVars, trailers, isLoading, error, statusMessage, testOutcomeRef,
                 pollingIntervalRef, progressIntervalRef, lastRunParamsRef,
                 pollTimers, progressTimers, pc, tasks, polled, calls, cancelledIn,
                 currentRun, nextRun, runState>>

\* handleSubmit resumes with the response of the sender-start call (486-499).
\* Promise.race with timeoutPromise, whose executor is empty: it never
\* settles, so the race is the call's result
senderStartReturns(r) ==
  /\ pc[r] = "senderStart"
  /\ senderStartResponse[r] # NoResponse
  /\ senderStartResponse' = [senderStartResponse EXCEPT ![r] = NoResponse]
  /\ IF /\ senderStartResponse[r].status = "ok"
        /\ senderStartResponse[r].output \in StartedOutputs
     THEN /\ testOutcomeRef' = "running"
          /\ statusMessage' = StPolling
          /\ pollingIntervalRef' = r
          /\ pollTimers' = pollTimers \cup {r}
          /\ pc' = [pc EXCEPT ![r] = "awaitTimeout"]
          /\ runState' = "Running"
          /\ UNCHANGED isLoading
     ELSE /\ catchBlock(r, "Error")
          /\ UNCHANGED <<testOutcomeRef, statusMessage>>
  /\ UNCHANGED <<error, progressIntervalRef, lastRunParamsRef, progressTimers,
                 tasks, polled, calls, cancelledIn, currentRun, nextRun>>
  /\ UNCHANGED formVars
  /\ UNCHANGED reportVars
  /\ UNCHANGED trailers

\* ----------------------------------------------- stopAndCleanupProcesses
\* !params || !params.responderNodeId || !params.senderNodeId ||
\* !params.responderIp || !params.port
paramsMissing(params) ==
  \/ params = NoParams
  \/ params.responderNodeId = ""
  \/ params.senderNodeId = ""
  \/ params.responderIp = ""
  \/ params.port = ""

\* a stop fetch ends: OK response, a throw (network error, non-OK response),
\* or the AbortError of its own 5000 ms timer
StopOutcomes == {"ok", "failed", "timedOut"}

\* stopError when a failed stop call is recorded twice
afterStopRecordedTwice(stopError, res) == IF res = "ok" THEN stopError ELSE stopError + 2

\* stopError (its number of lines) after a stop call ended with res: the
\* catch adds one line, for an AbortError and for any other error alike
afterStop(stopError, res) == IF res = "ok" THEN stopError ELSE stopError + 1

\* if (reason !== 'completed') { ... stop sender ... }
senderStopNeeded(reason) == reason # "completed"

\* a callback of the polling interval waiting for its status fetch
PollTask(r) ==
  [kind |-> "poll", run |-> r, at |-> "fetch", reason |-> "", stopError |-> 0]

\* an invocation of the cleanup code waiting for a stop fetch: kind "poll" is
\* stopAndCleanupProcesses called by a polling callback, kind "stop" the copy
\* of it inside handleStopClick. params is its local constant of that name,
\* const params = lastRunParamsRef.current (245, 656), read once on entry
StopTask(kind, r, at, reason, stopError, params) ==
  [kind |-> kind, run |-> r, at |-> at, reason |-> reason, stopError |-> stopError,
   params |-> params]

Without(t) == tasks (-) SetToBag({t})

\* a call goes out on a signal shared by all calls, and aborts those in flight
WithOthersAborted(bag, t) == SetToBag({t})

With(bag, t) == bag (+) SetToBag({t})

\* the last lines of a cleanup that treats a failed stop call as the run's
\* failure
finishFailureFatal(stopError) ==
  /\ error' = IF stopError # 0 THEN TRUE ELSE error
  /\ runState' = IF stopError # 0 THEN "Errored" ELSE runState
  /\ UNCHANGED statusMessage

\* the last lines of stopAndCleanupProcesses (328-335) and of handleStopClick
\* (719-724): the trailer goes to the status text, the stop errors (stopError
\* is their number) to the error text
finish(stopError) ==
  /\ error' = IF stopError # 0 THEN TRUE ELSE error
  /\ UNCHANGED <<statusMessage, runState>>

\* the responder-stop call of a cleanup ends (270-289, 673-689); the sender
\* stop follows unless the reason is 'completed'
\* the trailers once the cleanup t has written its own: 'Node processes
\* stopped successfully.' or 'Finished cleanup attempt with errors.' (329, 333),
\* in handleStopClick 'Stop commands sent successfully.' or 'Finished stop
\* attempt with errors.' (720, 723)
reportTrailer(t) == [trailers EXCEPT ![t.run][t.kind] = @ + 1]

\* the trailer written after every stop call, the first one included
trailerDueEarly(last) == TRUE

\* the trailer is written when the stop call that ended was the last of its
\* cleanup: the code reaches lines 328-335 (719-724) only then
trailerDue(last) == last

responderStopReturns(t) ==
  /\ BagIn(t, tasks)
  /\ t.at = "stopResponder"
  /\ \E res \in StopOutcomes :
       LET stopError == afterStop(t.stopError, res) IN
       IF t.kind = "stop" \/ senderStopNeeded(t.reason)
       THEN /\ calls' = Issue(t.run, "senderStop")
            /\ tasks' = With(Without(t),
                             StopTask(t.kind, t.run, "stopSender", t.reason, stopError,
                                      t.params))
            /\ trailers' = IF trailerDue(FALSE) THEN reportTrailer(t) ELSE trailers
            /\ UNCHANGED <<error, statusMessage, runState>>
       ELSE /\ finish(stopError)
            /\ trailers' = IF trailerDue(TRUE) THEN reportTrailer(t) ELSE trailers
            /\ tasks' = Without(t)
            /\ UNCHANGED calls
  /\ UNCHANGED <<isLoading, testOutcomeRef, pollingIntervalRef, progressIntervalRef,
                 lastRunParamsRef, pollTimers, progressTimers, pc, polled,
                 cancelledIn, currentRun, nextRun>>
  /\ UNCHANGED formVars
  /\ UNCHANGED reportVars
  /\ UNCHANGED senderStartResponse

\* the sender-stop call of a cleanup ends (301-320, 698-714)
senderStopReturns(t) ==
  /\ BagIn(t, tasks)
  /\ t.at = "stopSender"
  /\ \E res \in StopOutcomes :
       /\ finish(afterStop(t.stopError, res))
       /\ trailers' = IF trailerDue(TRUE) THEN reportTrailer(t) ELSE trailers
       /\ tasks' = Without(t)
  /\ UNCHANGED <<isLoading, testOutcomeRef, pollingIntervalRef, progressIntervalRef,
                 lastRunParamsRef, pollTimers, progressTimers, pc, polled, calls,
                 cancelledIn, currentRun, nextRun>>
  /\ UNCHANGED formVars
  /\ UNCHANGED reportVars
  /\ UNCHANGED senderStartResponse

\* ------------------------------------------------- the polling interval
\* the interval of run r fires (499-516): the abort check reads a fresh
\* signal, so the status fetch is always issued
pollTick(r) ==
  /\ r \in pollTimers
  /\ CopiesIn(PollTask(r), tasks) + polled[r] < MaxPolls
  /\ ~freshSignalAborted
  /\ tasks' = With(tasks, PollTask(r))
  /\ UNCHANGED <<isLoading, error, statusMessage, testOutcomeRef, pollingIntervalRef,
                 progressIntervalRef, lastRunParamsRef, pollTimers, progressTimers,
                 pc, polled, calls, cancelledIn, currentRun, nextRun, runState>>
  /\ UNCHANGED formVars
  /\ UNCHANGED reportVars
  /\ UNCHANGED senderStartResponse
  /\ UNCHANGED trailers

\* the status fetch ends: statusData.status, or "failed" for a throw (network
\* error, non-OK response)
PollOutcomes == {"completed", "running", "unknown", "failed"}

\* testOutcomeRef after a poll that ended with res (551, 570, 587)
outcomeAfterPoll(outcome, res) ==
  IF res = "completed" THEN "completed"
  ELSE IF outcome = "running" THEN "error" ELSE outcome

\* what the callback makes of a response that reported res: a 'completed'
\* whose results make formatTwampResults throw (530) lands in the catch of
\* the callback (579-594) like a failed fetch
handledAs(res, payload) ==
  IF res = "completed" /\ formatThrows(payload) THEN "failed" ELSE res

\* a status fetch of run r ends (518-594), up to the first await of the cleanup
pollReturns(r) ==
  /\ BagIn(PollTask(r), tasks)
  /\ \E reported \in PollOutcomes :
       LET res == handledAs(reported, results)
           \* setSenderResults(statusData.results) (529)
           kept == IF reported = "completed" THEN results ELSE senderResults
       IN
       IF res = "running"
       THEN /\ tasks' = Without(PollTask(r))
            /\ senderResults' = kept
            /\ UNCHANGED <<isLoading, error, statusMessage, testOutcomeRef,
                           pollingIntervalRef, progressIntervalRef, pollTimers,
                           progressTimers, polled, calls, runState,
                           formattedResults>>
       ELSE LET reason == IF res = "completed" THEN "completed" ELSE "error"
                first == IF res = "completed" THEN StCompleted
                         ELSE IF res = "unknown" THEN StPollUnknown
                         ELSE StPollError
                err == IF res = "completed" THEN error ELSE TRUE
            IN
            /\ senderResults' = kept
            /\ pollTimers' = clearPollingInterval(pollTimers, pollingIntervalRef)
            /\ pollingIntervalRef' = null
            /\ testOutcomeRef' = outcomeAfterPoll(testOutcomeRef, res)
            /\ runState' = IF res = "completed" THEN "Completed"
                           ELSE IF testOutcomeRef = "running" THEN "Errored"
                           ELSE runState
            /\ isLoading' = FALSE
            /\ IF res = "completed"
               THEN /\ progressTimers' = clearProgress(progressTimers, progressIntervalRef)
                    /\ progressIntervalRef' = null
                    /\ formattedResults' = formatTwampResults(results)
               ELSE UNCHANGED <<progressTimers, progressIntervalRef, formattedResults>>
            /\ polled' = [polled EXCEPT ![r] = @ + 1]
            /\ IF paramsMissing(lastRunParamsRef)
               THEN /\ statusMessage' = first
                    /\ error' = IF reason # "completed" THEN TRUE ELSE err
                    /\ tasks' = Without(PollTask(r))
                    /\ UNCHANGED calls
               ELSE /\ statusMessage' = first
                    /\ error' = err
                    /\ calls' = Issue(r, "responderStop")
                    /\ tasks' = With(Without(PollTask(r)),
                                     StopTask("poll", r, "stopResponder", reason, 0,
                                              lastRunParamsRef))
  /\ UNCHANGED <<lastRunParamsRef, pc, cancelledIn, currentRun, nextRun>>
  /\ UNCHANGED formVars
  /\ UNCHANGED results
  /\ UNCHANGED senderStartResponse
  /\ UNCHANGED trailers

\* --------------------------------------------------------- handleStopClick
\* the Stop button without its disabled attribute
StopAlwaysEnabled == TRUE

\* the Stop button: <button onClick={handleStopClick} disabled={!isLoading}>
StopEnabled == isLoading

\* if (testOutcomeRef.current !== 'running') return;
stopGuard == testOutcomeRef = "running"

\* what cancelledIn keeps of the run state a cancel found
stoppedIn(state) == IF state = "Running" THEN "Running" ELSE "starting"

\* handleStopClick from the click to its first await (631-673).
\* abortControllerRef.current is null (nothing assigns it), so
\* currentAbortController?.abort() aborts nothing.
handleStopClick ==
  /\ StopEnabled
  /\ stopGuard
  /\ testOutcomeRef' = "stopped"
  /\ pollTimers' = clearPollingInterval(pollTimers, pollingIntervalRef)
  /\ pollingIntervalRef' = null
  /\ isLoading' = FALSE
  /\ progressTimers' = clearProgress(progressTimers, progressIntervalRef)
  /\ progressIntervalRef' = null
  /\ runState' = "Stopped"
  /\ cancelledIn' = [cancelledIn EXCEPT ![currentRun] = stoppedIn(runState)]
  /\ statusMessage' = StStopping
  /\ error' = TRUE
  /\ IF paramsMissing(lastRunParamsRef)
     THEN UNCHANGED <<tasks, calls>>
     ELSE /\ calls' = Issue(currentRun, "responderStop")
          /\ tasks' = With(tasks, StopTask("stop", currentRun, "stopResponder",
                                           "stopped", 0, lastRunParamsRef))
  /\ UNCHANGED <<lastRunParamsRef, pc, polled, currentRun, nextRun>>
  /\ UNCHANGED formVars
  /\ UNCHANGED reportVars
  /\ UNCHANGED senderStartResponse
  /\ UNCHANGED trailers

\* ------------------------------------------------- the progress interval
\* the progress interval of run r fires with elapsedMs >= effectiveWaitTimeMs
\* (412-426) while progressIntervalRef holds a handle: it clears that handle
progressExpires(r) ==
  /\ r \in progressTimers
  /\ progressIntervalRef # null
  /\ progressTimers' = clearProgress(progressTimers, progressIntervalRef)
  /\ progressIntervalRef' = null
  /\ UNCHANGED <<isLoading, error, statusMessage, testOutcomeRef, pollingIntervalRef,
                 lastRunParamsRef, pollTimers, pc, tasks, polled, calls, cancelledIn,
                 currentRun, nextRun, runState>>
  /\ UNCHANGED formVars
  /\ UNCHANGED reportVars
  /\ UNCHANGED senderStartResponse
  /\ UNCHANGED trailers

\* ------------------------------------------------------- the form's fields
\* the IPv4 / IPv6 buttons of the form (771-772): onClick={() => setIpVersion(v)};
\* nothing disables them while a run is in progress
setIpVersion(v) ==
  /\ form' = [form EXCEPT !.ipVersion = v]
  /\ UNCHANGED <<maxWaitTime, commands, otwLine, isLoading, error, statusMessage,
                 testOutcomeRef, pollingIntervalRef, progressIntervalRef,
                 lastRunParamsRef, pollTimers, progressTimers, pc, tasks, polled,
                 calls, cancelledIn, currentRun, nextRun, runState>>
  /\ UNCHANGED reportVars
  /\ UNCHANGED senderStartResponse
  /\ UNCHANGED trailers

\* ------------------------------------------------------------ specification
Submit == \E r \in Runs, s \in SenderChoices, d \in ResponderChoices : handleSubmit(r, s, d)
ResponderStartReturns == \E r \in Runs : responderStartReturns(r)
SleepDone == \E r \in Runs : sleepDone(r)
SenderStartResponds == \E r \in Runs : senderStartResponds(r)
SenderStartReturns == \E r \in Runs : senderStartReturns(r)
PollTick == \E r \in Runs : pollTick(r)
PollReturns == \E r \in Runs : pollReturns(r)
ResponderStopReturns == \E t \in BagToSet(tasks) : responderStopReturns(t)
SenderStopReturns == \E t \in BagToSet(tasks) : senderStopReturns(t)
ProgressExpires == \E r \in Runs : progressExpires(r)
SetIpVersion == \E v \in {"ipv4", "ipv6"} : setIpVersion(v)

Next ==
  \/ Submit
  \/ ResponderStartReturns
  \/ SleepDone
  \/ SenderStartResponds
  \/ SenderStartReturns
  \/ PollTick
  \/ PollReturns
  \/ handleStopClick
  \/ ResponderStopReturns
  \/ SenderStopReturns
  \/ ProgressExpires

Spec == Init /\ [][Next]_vars

\* Every Gateway call eventually returns, fails or is timed out, and every
\* scheduled timer eventually fires; the user's clicks are under no obligation.
Fairness ==
  /\ WF_vars(ResponderStartReturns)
  /\ WF_vars(SleepDone)
  /\ WF_vars(SenderStartResponds)
  /\ WF_vars(SenderStartReturns)
  /\ WF_vars(PollTick)
  /\ WF_vars(PollReturns)
  /\ WF_vars(ResponderStopReturns)
  /\ WF_vars(SenderStopReturns)
  /\ WF_vars(ProgressExpires)

FairSpec == Spec /\ Fairness

\* The runs of a form the user has filled in, followed up to the moment the
\* polling is scheduled: the validators and the command builder applied to
\* every form of Forms, and the start and stop commands issued from them.
FormNext ==
  \/ Submit
  \/ ResponderStartReturns
  \/ SleepDone
  \/ SenderStartResponds
  \/ SenderStartReturns
  \/ handleStopClick
  \/ ResponderStopReturns
  \/ SenderStopReturns

FormSpec == FormInit /\ [][FormNext]_vars

\* The runs of a user who also switches the IP version of the form between
\* and during runs, followed up to the first stop call of each cleanup, which
\* has read the parameters both stop commands are built from: the parameters
\* kept for the stop commands against those of the run they are sent for.
ParamsNext ==
  \/ Submit
  \/ ResponderStartReturns
  \/ SleepDone
  \/ SenderStartResponds
  \/ SenderStartReturns
  \/ PollTick
  \/ PollReturns
  \/ handleStopClick
  \/ SetIpVersion

ParamsSpec == Init /\ [][ParamsNext]_vars

\* The runs whose status request reports the results of Payloads, followed
\* from the start to the end of the cleanup; the Stop button is left alone.
ReportNext ==
  \/ Submit
  \/ ResponderStartReturns
  \/ SleepDone
  \/ SenderStartResponds
  \/ SenderStartReturns
  \/ PollTick
  \/ PollReturns
  \/ ResponderStopReturns
  \/ SenderStopReturns

ReportSpec == ReportInit /\ [][ReportNext]_vars

\* The runs of the default form with the Stop button left alone, under the
\* same obligations as FairSpec: every Gateway call eventually returns, fails
\* or is timed out, and every scheduled polling interval eventually fires.
ReportFairness ==
  /\ WF_vars(ResponderStartReturns)
  /\ WF_vars(SleepDone)
  /\ WF_vars(SenderStartResponds)
  /\ WF_vars(SenderStartReturns)
  /\ WF_vars(PollTick)
  /\ WF_vars(PollReturns)
  /\ WF_vars(ResponderStopReturns)
  /\ WF_vars(SenderStopReturns)

ReportFairSpec == Init /\ [][ReportNext]_vars /\ ReportFairness

\* no cleanup and no status request of run r is in flight
Quiet(r) == \A t \in BagToSet(tasks) : t.run # r

\* -------------------------------------------------------------------- C1
\* C1: a run that issued a responder-start also gets a responder-stop. Stated
\* on the finished run: once handleSubmit has returned and nothing of the run
\* is in flight any more, its responder-stop has been issued.
C1_StartedResponderIsStopped ==
  \A r \in Runs :
    (pc[r] = "done" /\ calls[r]["responderStart"] > 0 /\ Quiet(r))
      => calls[r]["responderStop"] > 0

\* -------------------------------------------------------------------- C2
\* C2: when the responder-start call of a run fails while the component shows
\* StartingResponder, the component shows Errored and a new run may be started
\* (the Run button is enabled again); that run has issued no sender-start and
\* never issues one once its handleSubmit has returned.
C2_ResponderStartErrorNoSender ==
  /\ [][\A r \in Runs :
          (pc[r] = "responderStart" /\ pc'[r] \notin {"responderStart", "sleep"})
            => /\ pc'[r] = "done"
               /\ calls'[r]["senderStart"] = 0
               /\ (runState = "StartingResponder"
                     => runState' = "Errored" /\ ~isLoading')]_vars
  /\ [][\A r \in Runs :
          pc[r] = "done" => /\ pc'[r] = "done"
                            /\ calls'[r]["senderStart"] = calls[r]["senderStart"]]_vars

\* a run whose responder-start failed: returned, Errored, no sender-start
C2_Witness ==
  \E r \in Runs :
    /\ pc[r] = "done"
    /\ calls[r]["responderStart"] = 1
    /\ calls[r]["senderStart"] = 0
    /\ runState = "Errored"

\* -------------------------------------------------------------------- C3
\* C3: a run whose sender-start failed or was not judged successful ends
\* Errored without polling, and cleanup sends a responder-stop and a
\* sender-stop. Stated on the finished run that was not stopped by the user.
C3_SenderStartFailureCleansUp ==
  \A r \in Runs :
    (pc[r] = "done" /\ calls[r]["senderStart"] > 0 /\ cancelledIn[r] = "" /\ Quiet(r))
      => /\ r \notin pollTimers
         /\ polled[r] = 0
         /\ calls[r]["responderStop"] > 0
         /\ calls[r]["senderStop"] > 0

\* -------------------------------------------------------------------- C4
\* the step in which a status poll of run r reports 'completed'
CompletedStep(r) ==
  LET t == StopTask("poll", r, "stopResponder", "completed", 0, lastRunParamsRef)
  IN CopiesIn(t, tasks') > CopiesIn(t, tasks)

\* C4: when a status poll of run r reports 'completed' while the component
\* shows Running for r, the component shows Completed, the polling of r stops
\* and a responder-stop is sent for r; and while the component shows Completed
\* for a run the user never stopped, no sender-stop is sent for that run.
C4_CompletedStopsResponderOnly ==
  /\ [][\A r \in Runs :
          (CompletedStep(r) /\ runState = "Running" /\ currentRun = r)
            => /\ runState' = "Completed"
               /\ r \notin pollTimers'
               /\ calls'[r]["responderStop"] = calls[r]["responderStop"] + 1]_vars
  /\ [][\A r \in Runs :
          (runState = "Completed" /\ currentRun = r /\ cancelledIn[r] = "")
            => calls'[r]["senderStop"] = calls[r]["senderStop"]]_vars

\* -------------------------------------------------------------------- C5
\* C5: a run does not stay in Running forever: the maximum wait is finite, so
\* on a behaviour that keeps polling it elapses, and the component then has to
\* leave Running (for Errored, by the timeout).
C5_TimeoutLeavesRunning == (runState = "Running") ~> (runState # "Running")

\* -------------------------------------------------------------------- C6
\* C6: a cancel in Running shows Stopped in the same step, no status request
\* of that run is issued afterwards, and the run gets at most one
\* responder-stop and at most one sender-stop.
C6_CancelInRunning ==
  /\ [][\A r \in Runs :
          (cancelledIn[r] = "" /\ cancelledIn'[r] = "Running")
            => runState' = "Stopped"]_vars
  /\ [][\A r \in Runs :
          cancelledIn[r] = "Running"
            => CopiesIn(PollTask(r), tasks') <= CopiesIn(PollTask(r), tasks)]_vars
  /\ [](\A r \in Runs :
          cancelledIn[r] = "Running"
            => /\ calls[r]["responderStop"] <= 1
               /\ calls[r]["senderStop"] <= 1)

\* -------------------------------------------------------------------- C7
\* a click on Stop gets past the button and past the guard of handleStopClick
StopAccepted == StopEnabled /\ stopGuard

\* C7: outside the active states (Idle, Completed, Stopped, Errored) a cancel
\* does nothing: it is not accepted.
C7_CancelIgnoredOutsideActive == runState \notin Active => ~StopAccepted

\* right after a first cancel, with its stop calls still in flight
C7_Witness ==
  /\ runState = "Stopped"
  /\ testOutcomeRef = "stopped"
  /\ \E t \in BagToSet(tasks) : t.kind = "stop"

\* -------------------------------------------------------------------- C8
\* C8: whenever a run is in StartingResponder or StartingSender and the Stop
\* button can be clicked, the click is accepted.
C8_CancelAcceptedWhileStarting ==
  (runState \in {"StartingResponder", "StartingSender"} /\ StopEnabled) => stopGuard

\* -------------------------------------------------------------------- C9
\* C9: a run that cancel() stopped issues no sender-start afterwards, does not
\* enter Running, and neither schedules its polling nor issues a status
\* request.
C9_CancelledRunGoesNoFurther ==
  [][\A r \in Runs :
       cancelledIn[r] # ""
         => /\ calls'[r]["senderStart"] = calls[r]["senderStart"]
            /\ (pc'[r] = "awaitTimeout" => pc[r] = "awaitTimeout")
            /\ (r \in pollTimers' => r \in pollTimers)
            /\ CopiesIn(PollTask(r), tasks') <= CopiesIn(PollTask(r), tasks)]_vars

\* ------------------------------------------------------------------- C10
\* C10: within one run the responder-stop is issued at most once and the
\* sender-stop at most once.
C10_OneCleanupPerRun ==
  \A r \in Runs : calls[r]["responderStop"] <= 1 /\ calls[r]["senderStop"] <= 1

\* ------------------------------------------------------------------- C11
\* C11: the first of the events in Running decides: a terminal poll response
\* that arrives when the component already shows a terminal state neither
\* changes the state shown nor issues a stop command.
C11_FirstEventDecides ==
  [][\A r \in Runs :
       (polled'[r] > polled[r] /\ runState \in Terminal)
         => (runState' = runState /\ calls' = calls)]_vars

\* ------------------------------------------------------------------- C12
\* a stop call of some cleanup returns in this step
StopCallReturns ==
  \E t \in BagToSet(tasks) :
    /\ t.at \in {"stopResponder", "stopSender"}
    /\ CopiesIn(t, tasks') < CopiesIn(t, tasks)

\* a cleanup that recorded a failed stop call ends in this step
FailedCleanupEnds ==
  \E t \in BagToSet(tasks) :
    /\ t.at \in {"stopResponder", "stopSender"}
    /\ t.stopError > 0
    /\ CopiesIn(t, tasks') < CopiesIn(t, tasks)
    /\ BagCardinality(tasks') < BagCardinality(tasks)

\* C12: a stop call that returns, with an error or a timeout or without,
\* leaves the state shown, the recorded outcome and the buttons as they were;
\* it never clears the error text, and a cleanup that ends after a failed stop
\* call leaves the error text non-empty.
C12_CleanupFailureKeepsState ==
  /\ [][StopCallReturns
          => /\ runState' = runState
             /\ testOutcomeRef' = testOutcomeRef
             /\ isLoading' = isLoading
             /\ (error => error')]_vars
  /\ [][FailedCleanupEnds => error']_vars

\* the responder-stop of a user stop has failed and Stopped is still shown
C12_Witness ==
  /\ runState = "Stopped"
  /\ \E t \in BagToSet(tasks) : t.at = "stopSender" /\ t.stopError > 0

\* ------------------------------------------------------------------- C13
\* invocation r of handleSubmit is still starting its processes or polling
InProgress(r) == pc[r] \in {"responderStart", "sleep", "senderStart"} \/ r \in pollTimers

\* C13: a responder-start of a new run is issued only when the component
\* shows Idle, Completed, Stopped or Errored, and at no time are two runs in
\* progress.
C13_OneActiveRun ==
  /\ [][\A r \in Runs :
          calls'[r]["responderStart"] > calls[r]["responderStart"]
            => runState \notin Active]_vars
  /\ [](Cardinality({r \in Runs : InProgress(r)}) <= 1)

\* ------------------------------------------------------------------- C14
\* C14: a handleSubmit that ends on a validation error (ids missing, or the
\* responder id not found among the nodes) issues no Gateway call, leaves the
\* state shown, the buttons and the kept parameters as they were, and leaves
\* no timer scheduled that was not scheduled before.
C14_ValidationErrorChangesNothing ==
  [][\A r \in Runs :
       (pc[r] = "notStarted" /\ pc'[r] = "done")
         => /\ calls' = calls
            /\ runState' = runState
            /\ isLoading' = isLoading
            /\ lastRunParamsRef' = lastRunParamsRef
            /\ pollTimers' = pollTimers
            /\ progressTimers' = progressTimers]_vars

\* ------------------------------------------------------------------- C15
\* n clamped to [lo, hi]
Clamp(n, lo, hi) == IF n < lo THEN lo ELSE IF n > hi THEN hi ELSE n

\* the token that follows keyword kw in a command
tokenAfter(cmd, kw) == cmd[(CHOOSE i \in 1..(Len(cmd) - 1) : cmd[i] = kw) + 1]

\* invocation r of handleSubmit got as far as building its commands
Built(r) == commands[r] # NoCommands

\* C15: for an integer count and an integer interval in the form, the count
\* of the sender command is the count clamped to [1,10000] and its interval
\* is the interval clamped to [10,10000].
C15_CountAndIntervalClamped ==
  \A r \in Runs :
    Built(r) =>
      /\ ~isNaN(form.count)
           => tokenAfter(commands[r].senderCommand, "count")
                = ToString(Clamp(parseInt(form.count), 1, 10000))
      /\ ~isNaN(form.interval)
           => tokenAfter(commands[r].senderCommand, "interval")
                = ToString(Clamp(parseInt(form.interval), 10, 10000))

\* ------------------------------------------------------------------- C16
\* the text s is an integer of lo..hi
InRange(s, lo, hi) == ~isNaN(s) /\ parseInt(s) >= lo /\ parseInt(s) <= hi

\* C16: whatever the form holds, the port of every start and stop command
\* lies in [1,65535], and the padding, ttl and tos of the sender command lie
\* in [0,..), [1,255] and [0,255].
C16_CommandValuesInRange ==
  /\ \A r \in Runs :
       Built(r) =>
         /\ InRange(tokenAfter(commands[r].responderCommand, "port"), 1, 65535)
         /\ InRange(tokenAfter(commands[r].senderCommand, "port"), 1, 65535)
         /\ ~isNaN(tokenAfter(commands[r].senderCommand, "padding"))
         /\ parseInt(tokenAfter(commands[r].senderCommand, "padding")) >= 0
         /\ InRange(tokenAfter(commands[r].senderCommand, "ttl"), 1, 255)
         /\ InRange(tokenAfter(commands[r].senderCommand, "tos"), 0, 255)
  /\ \A t \in BagToSet(tasks) :
       /\ t.at = "stopResponder"
            => InRange(tokenAfter(stopResponderCommand(lastRunParamsRef), "port"), 1, 65535)
       /\ t.at = "stopSender"
            => InRange(tokenAfter(stopSenderCommand(lastRunParamsRef), "port"), 1, 65535)

Tokens(cmd) == {cmd[i] : i \in 1..Len(cmd)}

\* C18: the sender command ends with the token do-not-fragment exactly when
\* the IP version is ipv4 and doNotFragment is set; otherwise the token is
\* nowhere in the command, and the command has no empty token (no two spaces
\* in a row, no trailing space).
C18_DoNotFragmentToken ==
  \A r \in Runs :
    Built(r) =>
      LET cmd == commands[r].senderCommand
          df == form.ipVersion = "ipv4" /\ form.doNotFragment
      IN /\ (cmd[Len(cmd)] = "do-not-fragment") <=> df
         /\ ~df => ("do-not-fragment" \notin Tokens(cmd) /\ "" \notin Tokens(cmd))

\* ------------------------------------------------------------------- C19
\* The grammar of the four commands, for the IP-version tokens `versions`:
\*   twamp <version> responder port <port>
\*   twamp <version> sender destination-ip <ip> port <port> count <n>
\*     interval <ms> padding <bytes> ttl <ttl> tos <tos> [do-not-fragment]
\*   twamp <version> stop responder port <port>
\*   twamp <version> stop sender destination-ip <ip> port <port>
\* with <ip> the responder's address, <port>, <bytes>, <ttl>, <tos> the texts
\* of the form's fields and <n>, <ms> integers of [1,10000] and [10,10000].
\* It is required of the start commands of every run that built them and of
\* the stop command of every stop call in flight.
FollowsGrammar(versions) ==
  /\ \A r \in Runs :
       Built(r) =>
         LET rc == commands[r].responderCommand
             sc == commands[r].senderCommand
         IN /\ Len(rc) = 5
            /\ rc[2] \in versions
            /\ rc = <<"twamp", rc[2], "responder", "port", form.port>>
            /\ Len(sc) \in {17, 18}
            /\ sc[2] \in versions
            /\ SubSeq(sc, 1, 17) =
                 <<"twamp", sc[2], "sender", "destination-ip",
                   lastRunParamsRef.responderIp, "port", form.port,
                   "count", sc[9], "interval", sc[11], "padding", form.padding,
                   "ttl", form.ttl, "tos", form.tos>>
            /\ InRange(sc[9], 1, 10000)
            /\ InRange(sc[11], 10, 10000)
            /\ Len(sc) = 18 => sc[18] = "do-not-fragment"
  /\ \A t \in BagToSet(tasks) :
       /\ t.at = "stopResponder" =>
            LET c == stopResponderCommand(lastRunParamsRef)
            IN c[2] \in versions
               /\ c = <<"twamp", c[2], "stop", "responder", "port", form.port>>
       /\ t.at = "stopSender" =>
            LET c == stopSenderCommand(lastRunParamsRef)
            IN c[2] \in versions
               /\ c = <<"twamp", c[2], "stop", "sender", "destination-ip",
                        nodeIp(lastRunParamsRef.responderNodeId), "port", form.port>>

MarkedOutputs ==
  {out \in SenderOutputs :
     /\ includes(toLowerCase(out), "started successfully")
     /\ ~includes(toLowerCase(out), "error")}

\* C20: when handleSubmit resumes from its sender-start call it enters
\* Running and schedules the polling exactly when the call succeeded with a
\* Gateway output of MarkedOutputs; a run that ended otherwise has no polling
\* interval and never issued a status request.
C20_RunningIffStartMarker ==
  /\ [][\A r \in Runs :
          (pc[r] = "senderStart" /\ pc'[r] # "senderStart")
            => ((pc'[r] = "awaitTimeout" /\ runState' = "Running" /\ r \in pollTimers')
                  <=> (/\ senderStartResponse[r].status = "ok"
                       /\ senderStartResponse[r].output \in MarkedOutputs))]_vars
  /\ [](\A r \in Runs :
          pc[r] = "done"
            => (r \notin pollTimers /\ polled[r] = 0 /\ CopiesIn(PollTask(r), tasks) = 0))

\* ------------------------------------------------------------------- C21
\* the step in which a status poll of run r fails or reports a status that is
\* neither 'running' nor 'completed'
PollFailedStep(r) ==
  /\ polled'[r] > polled[r]
  /\ statusMessage' \in {StPollUnknown, StPollError}

\* the cleanup with reason 'error' of run r, waiting for its responder-stop
ErrorCleanup(r) ==
  StopTask("poll", r, "stopResponder", "error", 0, lastRunParamsRef)

\* C21: when a status poll of run r fails or reports an unknown status while
\* the component shows Running for r, the component shows Errored, the polling
\* of r stops, and the cleanup with reason 'error' sends a responder-stop and,
\* once that call has ended, a sender-stop; no status request of r is issued
\* after a poll of r has ended the run as Errored.
C21_PollFailureEndsRun ==
  /\ [][\A r \in Runs :
          (PollFailedStep(r) /\ runState = "Running" /\ currentRun = r)
            => /\ runState' = "Errored"
               /\ r \notin pollTimers'
               /\ calls'[r]["responderStop"] = calls[r]["responderStop"] + 1
               /\ CopiesIn(ErrorCleanup(r), tasks')
                    = CopiesIn(ErrorCleanup(r), tasks) + 1]_vars
  /\ [][\A r \in Runs :
          CopiesIn(ErrorCleanup(r), tasks') < CopiesIn(ErrorCleanup(r), tasks)
            => calls'[r]["senderStop"] = calls[r]["senderStop"] + 1]_vars
  /\ [][\A r \in Runs :
          (polled[r] > 0 /\ runState = "Errored" /\ currentRun = r)
            => CopiesIn(PollTask(r), tasks') <= CopiesIn(PollTask(r), tasks)]_vars

\* ------------------------------------------------------------------- C22
\* C22: whenever the component shows Errored or Stopped, the error text it
\* shows is non-empty.
C22_TerminalStateHasCause == runState \in {"Errored", "Stopped"} => error

\* ------------------------------------------------------------------- C23
\* the cell of a latency, loss or packet field: the text the formatter gives
\* a finite number, N/A for a field that is absent, null or not a finite number
CellOrNA(val, rendered) == IF typeOf(val) = "number" THEN rendered ELSE "N/A"

\* the report of a payload with such cells (the Total: suffix and the error
\* line as the formatter writes them)
ReportWithNA(payload) ==
  IF payload.falsy THEN "No results data."
  ELSE LET field == payload.field IN
       table([i \in 1..Len(LatencyFields) |->
                CellOrNA(field[LatencyFields[i]], dp(field[LatencyFields[i]]))],
             CellOrNA(field["total_loss_percent"], loss(field)),
             IF typeOf(field["packets_rx"]) = "number" /\ typeOf(field["packets_tx"]) = "number"
             THEN pkts(field) ELSE "N/A",
             totalPkts(field), errorLine(field))

\* C23: the formatter is total. When a status response first reports
\* 'completed' with results, the formatter returns (the component shows
\* Completed and the report is appended to the output); and every report it
\* returned shows N/A in the cell of each latency, loss and packet field
\* that is absent, null or not a finite number.
C23_FormatterTotal ==
  /\ [][senderResults' # senderResults
          => (runState' = "Completed" /\ formattedResults' # "")]_vars
  /\ [](formattedResults # "" => formattedResults = ReportWithNA(results))

\* ------------------------------------------------------------------- C24
\* C24: in every run the sender-start is issued once, at the end of the grace
\* period, after the one responder-start of the run; the grace period begins
\* only when the responder-start call has returned without an error (a failed
\* call ends the invocation, which then issues nothing); and while the
\* responder-start call is in flight the run has issued no sender-start.
C24_ResponderStartsFirst ==
  /\ [][\A r \in Runs :
          calls'[r]["senderStart"] > calls[r]["senderStart"]
            => /\ pc[r] = "sleep"
               /\ pc'[r] = "senderStart"
               /\ calls[r]["responderStart"] = 1
               /\ calls[r]["senderStart"] = 0]_vars
  /\ [][\A r \in Runs :
          /\ (pc'[r] = "sleep" /\ pc[r] # "sleep") => pc[r] = "responderStart"
          /\ pc[r] = "done"
               => /\ calls'[r]["responderStart"] = calls[r]["responderStart"]
                  /\ calls'[r]["senderStart"] = calls[r]["senderStart"]]_vars
  /\ [](\A r \in Runs :
          pc[r] = "responderStart"
            => (calls[r]["responderStart"] = 1 /\ calls[r]["senderStart"] = 0))

\* the sender-start call of a run is in flight, after its responder-start
C24_Witness ==
  \E r \in Runs :
    /\ pc[r] = "senderStart"
    /\ calls[r]["responderStart"] = 1
    /\ calls[r]["senderStart"] = 1

\* ------------------------------------------------------------------- C25
\* a status request of run r is issued in this step
StatusRequested(r) == CopiesIn(PollTask(r), tasks') > CopiesIn(PollTask(r), tasks)

\* run r has reached Completed, Stopped or Errored: the user stopped it, a
\* poll ended it, or its handleSubmit returned
Ended(r) == cancelledIn[r] # "" \/ polled[r] > 0 \/ pc[r] = "done"

\* C25: a status request of a run is issued only while the component shows
\* Running, and none is issued for a run that has reached Completed, Stopped
\* or Errored.
C25_PollOnlyWhileRunning ==
  [][\A r \in Runs :
       StatusRequested(r) => (runState = "Running" /\ ~Ended(r))]_vars

\* ------------------------------------------------------------------- C26
\* the main operation is aborted in this step: handleStopClick got past its
\* guard
MainAborted == testOutcomeRef # "stopped" /\ testOutcomeRef' = "stopped"

\* C26: the step that aborts the main operation leaves every stop call that
\* is in flight in flight; and a stop call ends only in a step of its own
\* (it returns, fails or is timed out), never as part of a step of
\* handleSubmit, of the polling or of handleStopClick.
C26_StopCallsOwnSignal ==
  /\ [][MainAborted
          => \A t \in BagToSet(tasks) :
               t.at \in {"stopResponder", "stopSender"}
                 => CopiesIn(t, tasks') >= CopiesIn(t, tasks)]_vars
  /\ [][StopCallReturns
          => UNCHANGED <<pc, testOutcomeRef, pollingIntervalRef, pollTimers, polled,
                         cancelledIn, isLoading, nextRun>>]_vars

\* Stop was clicked on the second run while a stop call of the first run's
\* cleanup was in flight, and that call is still in flight
C26_Witness ==
  /\ cancelledIn[2] # ""
  /\ \E t \in BagToSet(tasks) :
       t.run = 1 /\ t.kind = "poll" /\ t.at \in {"stopResponder", "stopSender"}

\* ------------------------------------------------------------------- C27
\* the cleanup t, which waits for its responder-stop, goes on to its
\* sender-stop in this step, with k more stop errors
GoesOnToSender(t, k) ==
  LET next == StopTask(t.kind, t.run, "stopSender", t.reason, t.stopError + k,
                       t.params)
  IN /\ CopiesIn(next, tasks') = CopiesIn(next, tasks) + 1
     /\ calls'[t.run]["senderStop"] = calls[t.run]["senderStop"] + 1
     /\ calls'[t.run]["responderStop"] = calls[t.run]["responderStop"]

CleanupInFlight(r) ==
  \E t \in BagToSet(tasks) :
    t.kind = "poll" /\ t.run = r /\ t.at \in {"stopResponder", "stopSender"}

\* C28: a cleanup of stopAndCleanupProcesses that has sent its first stop
\* command eventually writes its completion trailer; and the step that writes
\* the trailer is the one in which a stop call of the cleanup ends and no
\* further stop command is sent, so that no call of the cleanup is in flight.
C28_CleanupEndsWithTrailer ==
  /\ \A r \in Runs, n \in 0..MaxPolls :
       (CleanupInFlight(r) /\ trailers[r]["poll"] = n) ~> (trailers[r]["poll"] > n)
  /\ [][\A r \in Runs :
          trailers'[r]["poll"] > trailers[r]["poll"]
            => /\ calls' = calls
               /\ BagCardinality(tasks') = BagCardinality(tasks) - 1
               /\ \E t \in BagToSet(tasks) :
                    /\ t.kind = "poll" /\ t.run = r
                    /\ t.at \in {"stopResponder", "stopSender"}
                    /\ CopiesIn(t, tasks') = CopiesIn(t, tasks) - 1]_vars

\* the cleanup of a run that went on to its sender-stop has written its
\* trailer and nothing of the run is in flight
C28_Witness ==
  \E r \in Runs :
    /\ trailers[r]["poll"] = 1
    /\ calls[r]["senderStop"] = 1
    /\ cancelledIn[r] = ""
    /\ Quiet(r)


\* ------------------------------------------------------------------- C29
\* C29: in Completed, Stopped and Errored the Run button accepts a click, a
\* click that starts a run there puts it in StartingResponder, and whenever a
\* run has the button disabled the button is eventually enabled again.
C29_StartAcceptedAgain ==
  /\ [](runState \in Terminal => RunEnabled)
  /\ [][\A r \in Runs :
          (runState \in Terminal /\ pc[r] = "notStarted" /\ pc'[r] = "responderStart")
            => (runState' = "StartingResponder" /\ currentRun' = r)]_vars
  /\ (~RunEnabled) ~> RunEnabled


\* ------------------------------------------------------------------- C30
\* C30: the size on the 'OTW Size' line of a run's summary is 4 + padding + 8
\* + 20 for ipv4 and 4 + padding + 8 + 40 for ipv6, the padding being the
\* form's (0 when the field is empty); with a padding of at least 0 it is at
\* least 32 for ipv4 and at least 52 for ipv6.
paddingBytes == IF form.padding = "" THEN 0 ELSE parseInt(form.padding)

onTheWireBytes ==
  4 + paddingBytes + 8 + (IF form.ipVersion = "ipv4" THEN 20 ELSE 40)

C30_OnTheWireBytes ==
  otwLine # ""
    => /\ otwLine = ToString(onTheWireBytes) \o " bytes"
       /\ paddingBytes >= 0
            => onTheWireBytes >= (IF form.ipVersion = "ipv4" THEN 32 ELSE 52)

C30_Witness ==
  /\ form.ipVersion = "ipv6" /\ form.padding = "64"
  /\ otwLine = "116 bytes"
  /\ runState = "StartingResponder"


\* ------------------------------------------------------------------- C31
\* the stop commands a cleanup sends from its params
StopCommandsOf(t) ==
  [responder |-> stopResponderCommand(t.params), sender |-> stopSenderCommand(t.params)]

\* C31: every cleanup that has a stop call in flight sends its stop commands
\* with the IP version, the port and the responder IP of the start commands
\* of the run it cleans up, whatever the form holds by then.
C31_StopCommandsOfTheRun ==
  \A t \in BagToSet(tasks) :
    t.at \in {"stopResponder", "stopSender"}
      => LET start == commands[t.run]
             stop == StopCommandsOf(t)
         IN /\ stop.responder[2] = start.responderCommand[2]
            /\ tokenAfter(stop.responder, "port") = tokenAfter(start.responderCommand, "port")
            /\ stop.sender[2] = start.senderCommand[2]
            /\ tokenAfter(stop.sender, "destination-ip")
                 = tokenAfter(start.senderCommand, "destination-ip")
            /\ tokenAfter(stop.sender, "port") = tokenAfter(start.senderCommand, "port")


\* ------------------------------------------------------------------- C32
\* a stop call of a cleanup of run r is in flight
StopInFlight(r) ==
  \E t \in BagToSet(tasks) : t.run = r /\ t.at \in {"stopResponder", "stopSender"}

\* C32: a start command of a run is not sent while a stop call of an earlier
\* run is in flight, and a responder-stop of a run is not sent once a later
\* run has sent its responder-start.
C32_NoStartDuringCleanup ==
  [][\A r \in Runs :
       /\ (\E k \in {"responderStart", "senderStart"} : calls'[r][k] > calls[r][k])
            => \A q \in Runs : q < r => ~StopInFlight(q)
       /\ calls'[r]["responderStop"] > calls[r]["responderStop"]
            => \A q \in Runs : q > r => calls[q]["responderStart"] = 0]_vars


\* ------------------------------------------------------------------- C33
\* the polling intervals that clearing the handle would stop
HeldByHandle == IF pollingIntervalRef = null THEN {} ELSE {pollingIntervalRef}

\* C33: at most one polling interval is scheduled, and every scheduled polling
\* interval is the one pollingIntervalRef holds.
C33_OnePollingIntervalHeld ==
  /\ Cardinality(pollTimers) <= 1
  /\ pollTimers \subseteq HeldByHandle


\* ------------------------------------------------------------------- C34
\* the callbacks of the polling interval of run r that have started and not
\* finished: those awaiting their status fetch and those in their cleanup
RECURSIVE Callbacks(_, _)
Callbacks(r, ts) ==
  IF ts = {} THEN 0
  ELSE LET t == CHOOSE x \in ts : TRUE
       IN (IF t.kind = "poll" /\ t.run = r THEN CopiesIn(t, tasks) ELSE 0)
            + Callbacks(r, ts \ {t})

\* C34: at most one status request of a run is in flight, and at most one
\* callback of the polling interval of a run is at work at a time.
C34_OnePollInFlight ==
  \A r \in Runs :
    /\ CopiesIn(PollTask(r), tasks) <= 1
    /\ Callbacks(r, BagToSet(tasks)) <= 1


\* ------------------------------------------------------------------- C35
\* C35: while the component shows Idle, Completed, Stopped or Errored, no
\* polling interval and no progress interval is scheduled (the code schedules
\* no timer for the maximum wait).
C35_NoTimerOutsideActive ==
  runState \notin Active => (pollTimers = {} /\ progressTimers = {})

====
